---- MODULE Spec2Model ----
(***************************************************************************)
(* The TSK key-entry keyboard (system/ui/raylib/tsk-kbd.cc): the candidate *)
(* key edited with the on-screen keys, its installation into the           *)
(* authoritative key file /data/params/d/SecOCKey, the startup loader and  *)
(* the once-per-second probe of the installed key.                         *)
(*                                                                         *)
(* A std::string is a sequence of characters; a character is named by a    *)
(* string ("a", "LF", "NUL", ...) and Ord gives its byte value.            *)
(***************************************************************************)
EXTENDS Integers, Sequences, FiniteSets, TLC

VARIABLES
  pc,                  \* "start" (before main's step 2), "loop", "exited"
  secOCFile,           \* the file /data/params/d/SecOCKey
  persistFile,         \* the file /persist/tsk/key
  persistKey,          \* main's local persistKey
  secOCKey,            \* main's local secOCKey
  inputText,           \* main's local inputText (the candidate key)
  showCharsLeftLabel,
  showInstallButton,
  showSuccessLabel,
  errorLines,
  installedLabel,
  last,                \* history: what the latest step did, and the state before it
  sinceWrite,          \* history: the edits made since the latest write attempt
  installedKey,        \* history: the content of the latest successful write,
                       \* while the file still holds it
  lastWrite,           \* history: the outcome of the latest write attempt
  mgr                  \* tsk/manager.sh: its position, /persist and the canary

vars == <<pc, secOCFile, persistFile, persistKey, secOCKey, inputText,
          showCharsLeftLabel, showInstallButton, showSuccessLabel,
          errorLines, installedLabel, last, sinceWrite, installedKey,
          lastWrite, mgr>>

----------------------------------------------------------------------------
(* Characters *)

Ord ==
  ("NUL" :> 0) @@ ("TAB" :> 9) @@ ("LF" :> 10) @@ ("CR" :> 13) @@ ("SP" :> 32) @@
  ("!" :> 33) @@ ("-" :> 45) @@
  ("0" :> 48) @@ ("1" :> 49) @@ ("2" :> 50) @@ ("3" :> 51) @@ ("4" :> 52) @@
  ("5" :> 53) @@ ("6" :> 54) @@ ("7" :> 55) @@ ("8" :> 56) @@ ("9" :> 57) @@
  ("<" :> 60) @@ ("A" :> 65) @@
  ("a" :> 97) @@ ("b" :> 98) @@ ("c" :> 99) @@ ("d" :> 100) @@ ("e" :> 101) @@
  ("f" :> 102) @@ ("h" :> 104) @@ ("n" :> 110) @@ ("o" :> 111) @@ ("t" :> 116) @@
  ("x" :> 120)

INPUT_BOX_CHARS == 32

\* The on-screen keys, in the order the tap loop scans them.
keyTexts ==
  <<"1", "2", "3", "4", "5", "6", "7", "8", "9", "0",
    "a", "b", "c", "d", "e", "f", "<">>

\* The character class [a-f0-9] of the two regular expressions.
InClassHex(c) ==
  \/ (Ord[c] >= Ord["a"] /\ Ord[c] <= Ord["f"])
  \/ (Ord[c] >= Ord["0"] /\ Ord[c] <= Ord["9"])

\* The pattern ^[A-F0-9]{32}$, which the mutants of the readers use.
RegexMatchKeyUpper(s) ==
  /\ Len(s) = 32
  /\ \A i \in 1..Len(s) :
       \/ (Ord[s[i]] >= Ord["A"] /\ Ord[s[i]] <= 70)
       \/ (Ord[s[i]] >= Ord["0"] /\ Ord[s[i]] <= Ord["9"])

\* std::regex_match(s, std::regex("^[a-f0-9]{32}$")): the whole of s is
\* thirty-two characters of the class.
RegexMatchKey(s) ==
  /\ Len(s) = 32
  /\ \A i \in 1..Len(s) : InClassHex(s[i])

\* std::isspace in the "C" locale, which operator>> uses to delimit a token.
IsSpace(c) == Ord[c] \in {32, 9, 10, 11, 12, 13}

\* The lambda of readSecOCKey's any_of.
IsBinaryChar(c) == Ord[c] < 32 /\ c # "LF" /\ c # "CR"

----------------------------------------------------------------------------
(* Files *)

NoFile == [st |-> "absent", data |-> <<>>]
Unreadable(d) == [st |-> "unreadable", data |-> d]
FileOf(d) == [st |-> "present", data |-> d]

\* Whether std::ifstream / std::ofstream can open the path.
CanOpenForRead(f) == f.st = "present"

\* file >> content: skip leading whitespace, then take characters up to the
\* next whitespace or the end of the file (empty when there is none).
ExtractToken(s) ==
  LET nonSpace == {i \in 1..Len(s) : ~IsSpace(s[i])}
  IN  IF nonSpace = {} THEN <<>>
      ELSE LET first == CHOOSE i \in nonSpace : \A j \in nonSpace : i <= j
               stops == {i \in first..Len(s) : IsSpace(s[i])}
               stop  == IF stops = {} THEN Len(s) + 1
                        ELSE CHOOSE i \in stops : \A j \in stops : i <= j
           IN  SubSeq(s, first, stop - 1)

\* Mutant of readAndValidateKeyFile: the token is returned without the
\* regex_match test.
readAndValidateKeyFileNoCheck(f) ==
  IF ~CanOpenForRead(f) THEN <<>> ELSE ExtractToken(f.data)

\* readAndValidateKeyFile(filePath): the key, or "" (the empty sequence).
readAndValidateKeyFile(f) ==
  IF ~CanOpenForRead(f) THEN <<>>
  ELSE LET content == ExtractToken(f.data)
       IN  IF RegexMatchKey(content) THEN content ELSE <<>>

\* The label strings readSecOCKey returns, as (kind, text):
\*   "Installed: None"                   [kind |-> "None"]
\*   "Installed: Invalid (binary file)"  [kind |-> "Binary"]
\*   "Installed: " + content             [kind |-> "Key", text |-> content]
\*   "Installed: Invalid (" + content + ")"  [kind |-> "Invalid", text |-> content]
Label(kind, text) == [kind |-> kind, text |-> text]

\* Mutant of readSecOCKey: '\r' removed along with '\n'.
readSecOCKeyStripCR(f) ==
  IF ~CanOpenForRead(f) THEN Label("None", <<>>)
  ELSE IF \E i \in 1..Len(f.data) : IsBinaryChar(f.data[i])
       THEN Label("Binary", <<>>)
       ELSE LET content == SelectSeq(f.data, LAMBDA c : c # "LF" /\ c # "CR")
            IN  IF RegexMatchKey(content) THEN Label("Key", content)
                ELSE Label("Invalid", content)

\* Mutant of readSecOCKey: the pattern written as ^[A-F0-9]{32}$.
readSecOCKeyUpperClass(f) ==
  IF ~CanOpenForRead(f) THEN Label("None", <<>>)
  ELSE IF \E i \in 1..Len(f.data) : IsBinaryChar(f.data[i])
       THEN Label("Binary", <<>>)
       ELSE LET content == SelectSeq(f.data, LAMBDA c : c # "LF")
            IN  IF RegexMatchKeyUpper(content) THEN Label("Key", content)
                ELSE Label("Invalid", content)

\* readSecOCKey(): the installed-status label for the authoritative file.
readSecOCKey(f) ==
  IF ~CanOpenForRead(f) THEN Label("None", <<>>)
  ELSE LET buffer == f.data
       IN  IF \E i \in 1..Len(buffer) : IsBinaryChar(buffer[i])
           THEN Label("Binary", <<>>)
           ELSE LET content == SelectSeq(buffer, LAMBDA c : c # "LF")
                IN  IF RegexMatchKey(content) THEN Label("Key", content)
                    ELSE Label("Invalid", content)

----------------------------------------------------------------------------
(* Writing the key file *)

SecOCKeyPath == "/data/params/d/SecOCKey"

\* What the operating system does with one write of the key file:
\*   ok         the file is opened, truncated, written and closed;
\*   openfail   the file cannot be opened (it is left as it was);
\*   writefail  the file is opened and truncated, `kept` characters reach it
\*              (none, half of them or all of them), and the stream is not
\*              good() after close().
\* errno is the text strerror(errno) gives.
OpenErrnos == {"Read-only file system", "Permission denied"}
WriteErrnos == {"No space left on device"}

WriteOutcomes(f, content) ==
  IF f.st = "unreadable"
  THEN {[kind |-> "openfail", errno |-> "Permission denied", kept |-> 0]}
  ELSE {[kind |-> "ok", errno |-> "", kept |-> Len(content)]}
       \cup {[kind |-> "openfail", errno |-> e, kept |-> 0] : e \in OpenErrnos}
       \cup {[kind |-> "writefail", errno |-> e, kept |-> k] :
               e \in WriteErrnos, k \in {0, Len(content) \div 2, Len(content)}}

\* Mutant of writeToFileWithError: the file opened with std::ios::app
\* instead of std::ios::trunc.
writeToFileAppending(f, path, content, o) ==
  IF o.kind = "openfail"
  THEN [success |-> FALSE, file |-> f,
        errors |-> <<"Failed to open file '" \o path \o "'", "Error: " \o o.errno>>]
  ELSE IF o.kind = "writefail"
  THEN [success |-> FALSE, file |-> FileOf(f.data \o SubSeq(content, 1, o.kept)),
        errors |-> <<"Failed to write to file '" \o path \o "'", "Error: " \o o.errno>>]
  ELSE [success |-> TRUE, file |-> FileOf(f.data \o content), errors |-> <<>>]

\* Mutant of writeToFileWithError: the strerror line is not pushed.
writeToFileOneLine(f, path, content, o) ==
  IF o.kind = "openfail"
  THEN [success |-> FALSE, file |-> f,
        errors |-> <<"Failed to open file '" \o path \o "'">>]
  ELSE IF o.kind = "writefail"
  THEN [success |-> FALSE, file |-> FileOf(SubSeq(content, 1, o.kept)),
        errors |-> <<"Failed to write to file '" \o path \o "'">>]
  ELSE [success |-> TRUE, file |-> FileOf(content), errors |-> <<>>]

\* writeToFileWithError(path, content) on file f under outcome o:
\* (success, errors) and the file afterwards.
writeToFileWithError(f, path, content, o) ==
  IF o.kind = "openfail"
  THEN [success |-> FALSE, file |-> f,
        errors |-> <<"Failed to open file '" \o path \o "'", "Error: " \o o.errno>>]
  ELSE IF o.kind = "writefail"
  THEN [success |-> FALSE, file |-> FileOf(SubSeq(content, 1, o.kept)),
        errors |-> <<"Failed to write to file '" \o path \o "'", "Error: " \o o.errno>>]
  ELSE [success |-> TRUE, file |-> FileOf(content), errors |-> <<>>]

----------------------------------------------------------------------------
(* The controller: main's locals inputText, showCharsLeftLabel,           *)
(* showInstallButton, showSuccessLabel and errorLines as one record.      *)

UI == [inputText |-> inputText,
       showCharsLeftLabel |-> showCharsLeftLabel,
       showInstallButton |-> showInstallButton,
       showSuccessLabel |-> showSuccessLabel,
       errorLines |-> errorLines]

\* The four states of the controller, from the stored outcome and the length.
StateName(ui) ==
  IF ui.showSuccessLabel THEN "Installed"
  ELSE IF ui.errorLines # <<>> THEN "Error"
  ELSE IF Len(ui.inputText) = INPUT_BOX_CHARS THEN "ReadyToInstall"
  ELSE "Editing"

\* Mutant of KeyTap: backspace keeps the stored outcome.
KeyTapKeepOutcome(ui, key) ==
  IF key = "<" /\ ui.inputText # <<>>
  THEN LET t == SubSeq(ui.inputText, 1, Len(ui.inputText) - 1)
       IN  [ui EXCEPT !.inputText = t,
                      !.showInstallButton = FALSE,
                      !.showCharsLeftLabel = (Len(t) < INPUT_BOX_CHARS)]
  ELSE IF key # "<" /\ Len(ui.inputText) < INPUT_BOX_CHARS
  THEN LET t == ui.inputText \o <<key>>
       IN  [ui EXCEPT !.inputText = t,
                      !.showCharsLeftLabel = (Len(t) < INPUT_BOX_CHARS)]
  ELSE ui

\* Mutant of KeyTap: the character is put at the front of inputText.
KeyTapPrepend(ui, key) ==
  IF key = "<" /\ ui.inputText # <<>>
  THEN LET t == SubSeq(ui.inputText, 1, Len(ui.inputText) - 1)
       IN  [ui EXCEPT !.inputText = t,
                      !.showInstallButton = FALSE,
                      !.showSuccessLabel = FALSE,
                      !.showCharsLeftLabel = (Len(t) < INPUT_BOX_CHARS),
                      !.errorLines = <<>>]
  ELSE IF key # "<" /\ Len(ui.inputText) < INPUT_BOX_CHARS
  THEN LET t == <<key>> \o ui.inputText
       IN  [ui EXCEPT !.inputText = t,
                      !.showCharsLeftLabel = (Len(t) < INPUT_BOX_CHARS)]
  ELSE ui

\* Mutant of KeyTap: backspace clears the error lines, not the success flag.
KeyTapKeepSuccess(ui, key) ==
  IF key = "<" /\ ui.inputText # <<>>
  THEN LET t == SubSeq(ui.inputText, 1, Len(ui.inputText) - 1)
       IN  [ui EXCEPT !.inputText = t,
                      !.showInstallButton = FALSE,
                      !.showCharsLeftLabel = (Len(t) < INPUT_BOX_CHARS),
                      !.errorLines = <<>>]
  ELSE IF key # "<" /\ Len(ui.inputText) < INPUT_BOX_CHARS
  THEN LET t == ui.inputText \o <<key>>
       IN  [ui EXCEPT !.inputText = t,
                      !.showCharsLeftLabel = (Len(t) < INPUT_BOX_CHARS)]
  ELSE ui

\* Mutant of KeyTap: the append branch without its keyTexts[i] != "<" test,
\* so that backspace on an empty inputText appends "<".
KeyTapAppendsBackspace(ui, key) ==
  IF key = "<" /\ ui.inputText # <<>>
  THEN LET t == SubSeq(ui.inputText, 1, Len(ui.inputText) - 1)
       IN  [ui EXCEPT !.inputText = t,
                      !.showInstallButton = FALSE,
                      !.showSuccessLabel = FALSE,
                      !.showCharsLeftLabel = (Len(t) < INPUT_BOX_CHARS),
                      !.errorLines = <<>>]
  ELSE IF Len(ui.inputText) < INPUT_BOX_CHARS
  THEN LET t == ui.inputText \o <<key>>
       IN  [ui EXCEPT !.inputText = t,
                      !.showCharsLeftLabel = (Len(t) < INPUT_BOX_CHARS)]
  ELSE ui

\* Mutant of KeyTap: a character tapped on a full inputText replaces its
\* last character.
KeyTapOverwritesLast(ui, key) ==
  IF key = "<" /\ ui.inputText # <<>>
  THEN LET t == SubSeq(ui.inputText, 1, Len(ui.inputText) - 1)
       IN  [ui EXCEPT !.inputText = t,
                      !.showInstallButton = FALSE,
                      !.showSuccessLabel = FALSE,
                      !.showCharsLeftLabel = (Len(t) < INPUT_BOX_CHARS),
                      !.errorLines = <<>>]
  ELSE IF key # "<" /\ Len(ui.inputText) < INPUT_BOX_CHARS
  THEN LET t == ui.inputText \o <<key>>
       IN  [ui EXCEPT !.inputText = t,
                      !.showCharsLeftLabel = (Len(t) < INPUT_BOX_CHARS)]
  ELSE IF key # "<"
  THEN [ui EXCEPT !.inputText = SubSeq(ui.inputText, 1, Len(ui.inputText) - 1) \o <<key>>]
  ELSE ui

\* Mutant of KeyTap: backspace without errorLines.clear().
KeyTapKeepErrors(ui, key) ==
  IF key = "<" /\ ui.inputText # <<>>
  THEN LET t == SubSeq(ui.inputText, 1, Len(ui.inputText) - 1)
       IN  [ui EXCEPT !.inputText = t,
                      !.showInstallButton = FALSE,
                      !.showSuccessLabel = FALSE,
                      !.showCharsLeftLabel = (Len(t) < INPUT_BOX_CHARS)]
  ELSE IF key # "<" /\ Len(ui.inputText) < INPUT_BOX_CHARS
  THEN LET t == ui.inputText \o <<key>>
       IN  [ui EXCEPT !.inputText = t,
                      !.showCharsLeftLabel = (Len(t) < INPUT_BOX_CHARS)]
  ELSE ui

\* Step C for the key the tap is inside: backspace, append, or nothing.
KeyTap(ui, key) ==
  IF key = "<" /\ ui.inputText # <<>>
  THEN LET t == SubSeq(ui.inputText, 1, Len(ui.inputText) - 1)
       IN  [ui EXCEPT !.inputText = t,
                      !.showInstallButton = FALSE,
                      !.showSuccessLabel = FALSE,
                      !.showCharsLeftLabel = (Len(t) < INPUT_BOX_CHARS),
                      !.errorLines = <<>>]
  ELSE IF key # "<" /\ Len(ui.inputText) < INPUT_BOX_CHARS
  THEN LET t == ui.inputText \o <<key>>
       IN  [ui EXCEPT !.inputText = t,
                      !.showCharsLeftLabel = (Len(t) < INPUT_BOX_CHARS)]
  ELSE ui

\* Mutant of UpdateButtonStates: the button shown whenever the text is full.
UpdateButtonStatesLengthOnly(ui) ==
  [ui EXCEPT !.showInstallButton = (Len(ui.inputText) = INPUT_BOX_CHARS),
             !.showCharsLeftLabel = (Len(ui.inputText) < INPUT_BOX_CHARS)]

\* Step D.
UpdateButtonStates(ui) ==
  [ui EXCEPT !.showInstallButton =
               (Len(ui.inputText) = INPUT_BOX_CHARS)
               /\ (~ui.showSuccessLabel /\ ui.errorLines = <<>>),
             !.showCharsLeftLabel = (Len(ui.inputText) < INPUT_BOX_CHARS)]

\* Mutant of InstallStep: the success flag is not set after a good write.
InstallStepNoFlag(ui, f, tapped, o) ==
  IF ui.showInstallButton /\ tapped
  THEN LET w == writeToFileWithError(f, SecOCKeyPath, ui.inputText, o)
       IN  [ui |-> [ui EXCEPT !.errorLines = w.errors,
                              !.showSuccessLabel = FALSE,
                              !.showInstallButton = FALSE],
            file |-> w.file,
            wrote |-> o.kind]
  ELSE [ui |-> ui, file |-> f, wrote |-> "none"]

\* Mutant of InstallStep: showInstallButton is not reset after the write.
InstallStepKeepButton(ui, f, tapped, o) ==
  IF ui.showInstallButton /\ tapped
  THEN LET w == writeToFileWithError(f, SecOCKeyPath, ui.inputText, o)
       IN  [ui |-> [ui EXCEPT !.errorLines = w.errors,
                              !.showSuccessLabel = w.success],
            file |-> w.file,
            wrote |-> o.kind]
  ELSE [ui |-> ui, file |-> f, wrote |-> "none"]

\* Step E: `tapped` is whether the tap is inside installRect.
InstallStep(ui, f, tapped, o) ==
  IF ui.showInstallButton /\ tapped
  THEN LET w == writeToFileWithError(f, SecOCKeyPath, ui.inputText, o)
       IN  [ui |-> [ui EXCEPT !.errorLines = w.errors,
                              !.showSuccessLabel = w.success,
                              !.showInstallButton = FALSE],
            file |-> w.file,
            wrote |-> o.kind]
  ELSE [ui |-> ui, file |-> f, wrote |-> "none"]

----------------------------------------------------------------------------
(* Bounds and inputs of the model *)

\* How many characters below the full length the user deletes, and how many
\* characters the user types into an empty box.
EditDepth == 1

\* How many whitespace characters are put after a generated file content.
MaxSuffix == 1

\* The longest of the short file contents that are enumerated in full.
MaxShort == 2

\* The keys the user taps (a subset of keyTexts).
TapKeys == {"1", "f", "<"}

D8 == <<"d", "e", "a", "d", "b", "e", "e", "f">>
H16 == <<"0", "1", "2", "3", "4", "5", "6", "7", "8", "9", "a", "b", "c", "d", "e", "f">>
KeyDead == D8 \o D8 \o D8 \o D8      \* "deadbeefdeadbeefdeadbeefdeadbeef"
KeyCount == H16 \o H16               \* "0123456789abcdef0123456789abcdef"
NotHex == <<"n", "o", "t", "-", "h", "e", "x", "!", "!">>   \* "not-hex!!"

\* The characters file contents are built from: lowercase hex digits, an
\* upper-case hex digit, a non-hex character, space, '\n', '\r', a null byte.
FileChars == {"a", "0", "A", "-", "SP", "LF", "CR", "NUL"}
SpaceChars == {"SP", "LF", "CR"}

SeqsUpTo(S, n) == UNION {[1..k -> S] : k \in 0..n}

InsertAt(s, p, c) == SubSeq(s, 1, p) \o <<c>> \o SubSeq(s, p + 1, Len(s))
ReplaceAt(s, p, c) == [s EXCEPT ![p] = c]
DeleteAt(s, p) == SubSeq(s, 1, p - 1) \o SubSeq(s, p + 1, Len(s))

\* File contents at and around the valid keys: a key; a key with one character
\* inserted, replaced or deleted; all of these followed by whitespace; a key
\* followed by whitespace and further text; every short content.
NearKey ==
  {KeyDead}
  \cup {InsertAt(KeyDead, p, c) : p \in 0..Len(KeyDead), c \in FileChars}
  \cup {ReplaceAt(KeyDead, p, c) : p \in 1..Len(KeyDead), c \in FileChars}
  \cup {DeleteAt(KeyDead, p) : p \in 1..Len(KeyDead)}

FileContents ==
  {d \o w : d \in NearKey, w \in SeqsUpTo(SpaceChars, MaxSuffix)}
  \cup {KeyDead \o <<w>> \o NotHex : w \in SpaceChars}
  \cup {KeyDead \o <<"CR", "LF">>, NotHex, KeyCount}
  \cup SeqsUpTo(FileChars, MaxShort)

\* The states of a file: absent, not openable, or present with a content.
FileStates == {NoFile, Unreadable(KeyDead)} \cup {FileOf(d) : d \in FileContents}

\* The files the editing runs start from.
MainSecOCFiles ==
  {NoFile, Unreadable(KeyDead), FileOf(KeyDead), FileOf(KeyDead \o <<"LF">> \o NotHex),
   FileOf(NotHex)}
MainPersistFiles == {NoFile, FileOf(KeyCount)}

\* The fallback files the loader is tried on.
LoadPersistFiles == {NoFile, FileOf(KeyCount), FileOf(NotHex), FileOf(KeyCount \o <<"CR", "LF">>)}

----------------------------------------------------------------------------
(* The program *)

NoLabel == Label("None", <<>>)     \* "Installed: None", main's initial label
NoUI == [inputText |-> <<>>, showCharsLeftLabel |-> FALSE, showInstallButton |-> FALSE,
         showSuccessLabel |-> FALSE, errorLines |-> <<>>]
NoOutcome == [kind |-> "none", errno |-> "", kept |-> 0]

\* The history of one step: the tap, whether the probe ran, the write made
\* ("none", "ok", "openfail", "writefail"), and the controller, the key file
\* sinceWrite and lastWrite as they were before the step.
Hist(tap, tick, wrote, ui, f, since, prevWrite) ==
  [tap |-> tap, tick |-> tick, wrote |-> wrote, pre |-> ui, file |-> f,
   since |-> since, prevWrite |-> prevWrite]

\* manager.sh is not running: the program is started by itself.
NoMgr == [pc |-> "none", mode |-> "rw", canary |-> FALSE, touched |-> FALSE,
          startMode |-> "rw", startCanary |-> FALSE, interrupted |-> FALSE,
          exitMode |-> "rw", exitCanary |-> FALSE]

ProgramInit(sec, per) ==
  /\ secOCFile = sec
  /\ persistFile = per
  /\ persistKey = <<>>
  /\ secOCKey = <<>>
  /\ inputText = <<>>
  /\ showCharsLeftLabel = FALSE
  /\ showInstallButton = FALSE
  /\ showSuccessLabel = FALSE
  /\ errorLines = <<>>
  /\ installedLabel = NoLabel
  /\ last = Hist("Init", FALSE, "none", NoUI, sec, "nowrite", "none")
  /\ sinceWrite = "nowrite"
  /\ installedKey = <<>>
  /\ lastWrite = "none"

InitWith(sec, per) ==
  /\ pc = "start"
  /\ mgr = NoMgr
  /\ ProgramInit(sec, per)

Init == \E sec \in MainSecOCFiles, per \in MainPersistFiles : InitWith(sec, per)

InitLoad == \E sec \in FileStates, per \in LoadPersistFiles : InitWith(sec, per)

\* main, step 2: the initial inputText from the two keys read.
InitialInputText(pKey, sKey) ==
  IF sKey # <<>> THEN sKey ELSE (IF pKey # <<>> THEN pKey ELSE <<>>)

\* main up to the loop: steps 2 and 7.
Startup ==
  /\ pc = "start"
  /\ LET pKey == readAndValidateKeyFile(persistFile)
         sKey == readAndValidateKeyFile(secOCFile)
         text == InitialInputText(pKey, sKey)
     IN  /\ persistKey' = pKey
         /\ secOCKey' = sKey
         /\ inputText' = text
         /\ showCharsLeftLabel' = (text = <<>>)
  /\ showInstallButton' = FALSE
  /\ showSuccessLabel' = FALSE
  /\ errorLines' = <<>>
  /\ installedLabel' = NoLabel
  /\ pc' = "loop"
  /\ last' = Hist("Startup", FALSE, "none", NoUI, secOCFile, sinceWrite, lastWrite)
  /\ UNCHANGED <<secOCFile, persistFile, sinceWrite, installedKey, lastWrite, mgr>>

\* The edits since the latest write attempt, after one more iteration.
NextSinceWrite(wrote, tap, before, after) ==
  IF wrote # "none" THEN "none"
  ELSE IF tap = "<" /\ after # before /\ sinceWrite = "none" THEN "back"
  ELSE IF tap # "<" /\ after # before /\ sinceWrite = "back" THEN "back_app"
  ELSE sinceWrite

\* One iteration of the main loop, steps A to E, for a tap that is inside
\* the Hide button ("Hide"), inside one key (its text), inside installRect
\* ("Install") or nowhere ("None"); `tick` is whether a second has passed
\* since lastUpdateTime, o the outcome of the write if one is made.
\* TappedInside reads one mouse position per frame, and on the device's
\* screen exitRect (top right), the key rects (the two bottom rows) and
\* installRect (under the input box) do not overlap, so a tap is inside at
\* most one of them.
Iteration(tap, tick, o) ==
  /\ pc = "loop"
  /\ installedLabel' = IF tick THEN readSecOCKey(secOCFile) ELSE installedLabel
  /\ IF tap = "Hide"
     THEN /\ pc' = "exited"
          /\ last' = Hist(tap, tick, "none", UI, secOCFile, sinceWrite, lastWrite)
          /\ UNCHANGED <<secOCFile, inputText, showCharsLeftLabel, showInstallButton,
                         showSuccessLabel, errorLines, sinceWrite, installedKey,
                         lastWrite>>
     ELSE LET ui1 == IF \E i \in 1..Len(keyTexts) : keyTexts[i] = tap
                     THEN KeyTap(UI, tap) ELSE UI
              ui2 == UpdateButtonStates(ui1)
              r   == InstallStep(ui2, secOCFile, tap = "Install", o)
          IN  /\ inputText' = r.ui.inputText
              /\ showCharsLeftLabel' = r.ui.showCharsLeftLabel
              /\ showInstallButton' = r.ui.showInstallButton
              /\ showSuccessLabel' = r.ui.showSuccessLabel
              /\ errorLines' = r.ui.errorLines
              /\ secOCFile' = r.file
              /\ last' = Hist(tap, tick, r.wrote, UI, secOCFile, sinceWrite, lastWrite)
              /\ sinceWrite' = NextSinceWrite(r.wrote, tap, inputText, r.ui.inputText)
              /\ installedKey' = IF r.wrote = "ok" THEN r.ui.inputText
                                 ELSE IF r.wrote = "writefail" THEN <<>>
                                 ELSE installedKey
              /\ lastWrite' = IF r.wrote # "none" THEN r.wrote ELSE lastWrite
              /\ pc' = "loop"
  /\ UNCHANGED <<persistFile, persistKey, secOCKey, mgr>>

\* The lengths of inputText the runs are kept to.
WithinEditDepth(text) ==
  \/ Len(text) <= EditDepth
  \/ Len(text) >= INPUT_BOX_CHARS - EditDepth

TapKey ==
  \E i \in 1..Len(keyTexts), tick \in BOOLEAN :
    /\ keyTexts[i] \in TapKeys
    /\ WithinEditDepth(KeyTap(UI, keyTexts[i]).inputText)
    /\ Iteration(keyTexts[i], tick, NoOutcome)

TapInstall ==
  \E tick \in BOOLEAN :
    \E o \in (IF UpdateButtonStates(UI).showInstallButton
              THEN WriteOutcomes(secOCFile, inputText) ELSE {NoOutcome}) :
      Iteration("Install", tick, o)

NoTap == \E tick \in BOOLEAN : Iteration("None", tick, NoOutcome)

TapHide == \E tick \in BOOLEAN : Iteration("Hide", tick, NoOutcome)

\* WindowShouldClose() ends the loop.
WindowClose ==
  /\ pc = "loop"
  /\ pc' = "exited"
  /\ last' = Hist("Close", FALSE, "none", UI, secOCFile, sinceWrite, lastWrite)
  /\ UNCHANGED <<secOCFile, persistFile, persistKey, secOCKey, inputText,
                 showCharsLeftLabel, showInstallButton, showSuccessLabel,
                 errorLines, installedLabel, sinceWrite, installedKey,
                 lastWrite, mgr>>

Next ==
  \/ Startup
  \/ TapKey
  \/ TapInstall
  \/ NoTap
  \/ TapHide
  \/ WindowClose

Spec == Init /\ [][Next]_vars

\* The loader and the probe on every file state: the program is started and
\* the loop runs without taps.
NextLoad ==
  \/ Startup
  \/ NoTap
  \/ WindowClose

SpecLoad == InitLoad /\ [][NextLoad]_vars

----------------------------------------------------------------------------
(* Properties *)

HexKeys == {keyTexts[i] : i \in 1..Len(keyTexts)} \ {"<"}

\* A loop iteration has just run (the step before this state).
Iterated == last.tap \in HexKeys \cup {"<", "Install", "None", "Hide"}

\* C1: the key file is written only in an iteration whose tap is inside the
\* install button while inputText has exactly 32 characters, no error lines
\* are stored and the success flag is clear; the install button is shown only
\* in such states; an install tap in any other state writes nothing and
\* leaves the controller and the file as they were.
C1_InstallOnlyWhenReady ==
  /\ last.wrote # "none" =>
       /\ last.tap = "Install"
       /\ Len(last.pre.inputText) = 32
       /\ last.pre.errorLines = <<>>
       /\ ~last.pre.showSuccessLabel
  /\ showInstallButton =>
       /\ Len(inputText) = 32
       /\ errorLines = <<>>
       /\ ~showSuccessLabel
  /\ (last.tap = "Install" /\ StateName(last.pre) # "ReadyToInstall") =>
       /\ last.wrote = "none"
       /\ UI = last.pre
       /\ secOCFile = last.file

C1_Witness ==
  /\ last.tap = "Install"
  /\ last.wrote = "ok"
  /\ Len(last.pre.inputText) = 32
  /\ secOCFile # last.file

\* C2: a write attempt is made only when no write was attempted before in
\* the run, or when, since the latest attempt, a backspace changed inputText
\* and an append followed it; an iteration whose tap is not inside the
\* install button never writes.
C2_NoRepeatedInstall ==
  /\ last.wrote # "none" => last.since \in {"nowrite", "back_app"}
  /\ (Iterated /\ last.tap # "Install") =>
       (last.wrote = "none" /\ secOCFile = last.file)

C2_Witness ==
  /\ last.wrote # "none"
  /\ last.since = "back_app"

\* C3: after an install whose write fails (the open or the write), exactly
\* two non-empty error lines are stored, the first naming the operation and
\* the path, the second the OS error string; the success flag is false, the
\* install button hidden and inputText as before.
C3_FailedInstall ==
  last.wrote \in {"openfail", "writefail"} =>
    /\ StateName(last.pre) = "ReadyToInstall"
    /\ Len(errorLines) = 2
    /\ errorLines[1] # "" /\ errorLines[2] # ""
    /\ errorLines[1] = (IF last.wrote = "openfail"
                        THEN "Failed to open file '/data/params/d/SecOCKey'"
                        ELSE "Failed to write to file '/data/params/d/SecOCKey'")
    /\ \E e \in OpenErrnos \cup WriteErrnos : errorLines[2] = "Error: " \o e
    /\ ~showSuccessLabel
    /\ ~showInstallButton
    /\ inputText = last.pre.inputText
    /\ StateName(UI) = "Error"

C3_Witness ==
  /\ last.wrote = "openfail"
  /\ errorLines = <<"Failed to open file '/data/params/d/SecOCKey'",
                    "Error: Read-only file system">>
  /\ Len(inputText) = 32

\* C4: after an install whose write succeeds, the success flag is set, no
\* error lines are stored, the install button is hidden, inputText is as
\* before, and the key file holds exactly the 32 characters of inputText,
\* whatever it held before.
C4_SuccessfulInstall ==
  last.wrote = "ok" =>
    /\ StateName(last.pre) = "ReadyToInstall"
    /\ showSuccessLabel
    /\ errorLines = <<>>
    /\ ~showInstallButton
    /\ StateName(UI) = "Installed"
    /\ inputText = last.pre.inputText
    /\ secOCFile.st = "present"
    /\ secOCFile.data = inputText
    /\ Len(secOCFile.data) = 32

C4_Witness ==
  /\ last.wrote = "ok"
  /\ last.file.st = "present"
  /\ Len(last.file.data) > 32
  /\ secOCFile.data = inputText

\* C5: while the key file holds the key k that the latest successful install
\* wrote, the probe reports "Installed: " + k (and the label shows it after
\* every iteration that probed without writing), and the loader, with any
\* fallback file, gives k as the initial inputText.
C5_RoundTrip ==
  installedKey # <<>> =>
    /\ readSecOCKey(secOCFile) = Label("Key", installedKey)
    /\ (Iterated /\ last.tick /\ last.wrote = "none") =>
         installedLabel = Label("Key", installedKey)
    /\ readAndValidateKeyFile(secOCFile) = installedKey
    /\ \A per \in LoadPersistFiles :
         InitialInputText(readAndValidateKeyFile(per),
                          readAndValidateKeyFile(secOCFile)) = installedKey

C5_Witness ==
  /\ installedKey # <<>>
  /\ installedKey # KeyDead
  /\ last.tick
  /\ last.wrote = "none"
  /\ installedLabel = Label("Key", installedKey)

----------------------------------------------------------------------------
(* The validation rule as the specification words it *)

LowerHexDigits ==
  {"0", "1", "2", "3", "4", "5", "6", "7", "8", "9", "a", "b", "c", "d", "e", "f"}

\* A control character other than '\n' and '\r'.
IsControlByte(c) == Ord[c] \in (0..31) \ {10, 13}

RECURSIVE WithoutNewlines(_)
WithoutNewlines(s) ==
  IF s = <<>> THEN <<>>
  ELSE IF Head(s) = "LF" THEN WithoutNewlines(Tail(s))
  ELSE <<Head(s)>> \o WithoutNewlines(Tail(s))

\* The content is a valid key: no control byte, and with every '\n' removed
\* exactly 32 lowercase hexadecimal digits.
RuleValid(f) ==
  /\ f.st = "present"
  /\ \A i \in 1..Len(f.data) : ~IsControlByte(f.data[i])
  /\ Len(WithoutNewlines(f.data)) = 32
  /\ \A i \in 1..32 : WithoutNewlines(f.data)[i] \in LowerHexDigits

RuleKey(f) == WithoutNewlines(f.data)

\* The label is the probe's reading of the key file as it is now.
FreshLabel == Iterated /\ last.tick /\ secOCFile = last.file

\* C6: the loader returns a key k for the authoritative file if and only if
\* the probe labels the same file "Installed: " + k.
C6_SameValidation ==
  FreshLabel =>
    /\ (secOCKey # <<>>) <=> (installedLabel.kind = "Key")
    /\ secOCKey # <<>> => installedLabel.text = secOCKey

\* C7: the probe's label is None exactly when the key file is absent or
\* cannot be opened, a key exactly when the content is valid by the rule (and
\* then the key is the content without its '\n'), and Invalid otherwise; the
\* listed contents are Invalid, and a key followed by one '\n' is that key.
C7_ProbeClassifies ==
  FreshLabel =>
    /\ (installedLabel.kind = "None") <=> (secOCFile.st # "present")
    /\ (installedLabel.kind = "Key") <=> RuleValid(secOCFile)
    /\ installedLabel.kind = "Key" => installedLabel.text = RuleKey(secOCFile)
    /\ installedLabel.kind \in {"None", "Key", "Invalid", "Binary"}
    /\ secOCFile = FileOf(<<>>) => installedLabel = Label("Invalid", <<>>)
    /\ secOCFile = FileOf(DeleteAt(KeyDead, 32)) => installedLabel.kind = "Invalid"
    /\ secOCFile = FileOf(InsertAt(KeyDead, 32, "a")) => installedLabel.kind = "Invalid"
    /\ secOCFile = FileOf(ReplaceAt(KeyDead, 5, "A")) => installedLabel.kind = "Invalid"
    /\ secOCFile = FileOf(NotHex) => installedLabel = Label("Invalid", NotHex)
    /\ secOCFile = FileOf(InsertAt(KeyDead, 3, "NUL")) => installedLabel.kind = "Binary"
    /\ secOCFile = FileOf(KeyDead \o <<"LF">>) => installedLabel = Label("Key", KeyDead)

C7_Witness ==
  /\ FreshLabel
  /\ secOCFile = FileOf(KeyDead \o <<"LF">>)
  /\ installedLabel = Label("Key", KeyDead)

\* C8: the initial inputText is the authoritative file's key when that file
\* is valid by the rule, otherwise the fallback file's key when that file is
\* valid by the rule, otherwise empty.
C8_InitialLoad ==
  last.tap = "Startup" =>
    inputText = (IF RuleValid(secOCFile) THEN RuleKey(secOCFile)
                 ELSE IF RuleValid(persistFile) THEN RuleKey(persistFile)
                 ELSE <<>>)

\* C9 as claimed: a hex key tapped while inputText has fewer than 32
\* characters appends that character and leaves the install button hidden.
C9_AppendNeverShowsInstall ==
  (last.tap \in HexKeys /\ Len(last.pre.inputText) < 32) =>
    /\ inputText = last.pre.inputText \o <<last.tap>>
    /\ Len(inputText) = Len(last.pre.inputText) + 1
    /\ ~showInstallButton

\* C9 as amended: a hex key tapped while inputText has fewer than 32
\* characters appends that character; the install button is hidden after the
\* iteration when the new length is below 32 and shown when it is 32 (a tap
\* at length 31); in neither case is the key file written in that iteration.
C9_AppendNeverInstalls ==
  (last.tap \in HexKeys /\ Len(last.pre.inputText) < 32) =>
    /\ inputText = last.pre.inputText \o <<last.tap>>
    /\ Len(inputText) = Len(last.pre.inputText) + 1
    /\ showInstallButton <=> (Len(inputText) = 32)
    /\ last.wrote = "none"
    /\ secOCFile = last.file

C9_Witness ==
  /\ last.tap = "1"
  /\ Len(last.pre.inputText) = 31
  /\ inputText = last.pre.inputText \o <<"1">>
  /\ showInstallButton

\* C10: backspace on a non-empty inputText, from any state, removes exactly
\* the last character and leaves the controller in Editing: success flag
\* clear, no error lines, install button hidden.
C10_Backspace ==
  (last.tap = "<" /\ last.pre.inputText # <<>>) =>
    /\ Len(inputText) = Len(last.pre.inputText) - 1
    /\ inputText = SubSeq(last.pre.inputText, 1, Len(last.pre.inputText) - 1)
    /\ ~showSuccessLabel
    /\ errorLines = <<>>
    /\ ~showInstallButton
    /\ StateName(UI) = "Editing"

C10_Witness ==
  /\ last.tap = "<"
  /\ StateName(last.pre) = "Error"
  /\ Len(inputText) = 31
  /\ StateName(UI) = "Editing"

\* C11: after an iteration in which inputText changed, by an append or by a
\* backspace, the success flag is false and no error lines are stored; a
\* success flag or error lines are shown only while no edit has been made
\* since the write attempt that set them.
C11_OutcomeClearedByEdit ==
  /\ (Iterated /\ inputText # last.pre.inputText) =>
       (~showSuccessLabel /\ errorLines = <<>>)
  /\ (showSuccessLabel \/ errorLines # <<>>) =>
       (sinceWrite = "none" /\ Len(inputText) = 32)

C11_Witness ==
  /\ last.tap = "<"
  /\ last.pre.showSuccessLabel
  /\ inputText # last.pre.inputText
  /\ ~showSuccessLabel

\* C12: a character key tapped while inputText has 32 characters changes
\* nothing: inputText, the success flag, the error lines and the key file are
\* as before, nothing is written, and the install button is as an iteration
\* without a tap leaves it (as before, in every state a frame has shown).
C12_AppendWhenFull ==
  (last.tap \in HexKeys /\ Len(last.pre.inputText) = 32) =>
    /\ inputText = last.pre.inputText
    /\ showSuccessLabel = last.pre.showSuccessLabel
    /\ errorLines = last.pre.errorLines
    /\ showCharsLeftLabel = last.pre.showCharsLeftLabel
    /\ showInstallButton = (StateName(last.pre) = "ReadyToInstall")
    /\ (last.pre.showInstallButton = (StateName(last.pre) = "ReadyToInstall")) =>
         UI = last.pre
    /\ last.wrote = "none"
    /\ secOCFile = last.file

C12_Witness ==
  /\ last.tap = "f"
  /\ Len(last.pre.inputText) = 32
  /\ StateName(last.pre) = "Error"
  /\ UI = last.pre

\* C13: backspace on an empty inputText changes nothing: inputText stays
\* empty, and the success flag, the error lines, the labels, the install
\* button and the key file are as before.
C13_BackspaceWhenEmpty ==
  (last.tap = "<" /\ last.pre.inputText = <<>>) =>
    /\ inputText = <<>>
    /\ UI = last.pre
    /\ last.wrote = "none"
    /\ secOCFile = last.file

C13_Witness ==
  /\ last.tap = "<"
  /\ last.pre.inputText = <<>>
  /\ last.pre.showCharsLeftLabel
  /\ inputText = <<>>

FailedWrites == {"openfail", "writefail"}

\* C14: from the Error state a backspace leaves Editing with 31 characters;
\* one append after that one backspace gives ReadyToInstall (32 characters,
\* no error lines, no success flag, install button shown); an install made
\* after such edits whose write succeeds gives Installed, with the key file
\* holding inputText.
C14_RecoverFromError ==
  /\ (last.tap = "<" /\ StateName(last.pre) = "Error") =>
       /\ Len(inputText) = 31
       /\ StateName(UI) = "Editing"
  /\ (/\ last.tap \in HexKeys
      /\ last.since = "back"
      /\ lastWrite \in FailedWrites
      /\ Len(last.pre.inputText) = 31) =>
       /\ Len(inputText) = 32
       /\ errorLines = <<>>
       /\ ~showSuccessLabel
       /\ showInstallButton
       /\ StateName(UI) = "ReadyToInstall"
  /\ (/\ last.wrote = "ok"
      /\ last.since = "back_app"
      /\ last.prevWrite \in FailedWrites) =>
       /\ StateName(UI) = "Installed"
       /\ secOCFile = FileOf(inputText)

C14_Witness ==
  /\ last.wrote = "ok"
  /\ last.since = "back_app"
  /\ last.prevWrite = "openfail"
  /\ StateName(last.pre) = "ReadyToInstall"
  /\ StateName(UI) = "Installed"

\* A frame has been drawn with the state as it is (an iteration that did not
\* break out of the loop has just run).
FrameDrawn == Iterated /\ last.tap # "Hide" /\ pc = "loop"

\* C15: while the key file exists and can be read, as it did at startup, no
\* drawn frame shows the label "Installed: None".
C15_NoneOnlyWhenAbsent ==
  (FrameDrawn /\ secOCFile.st = "present" /\ last.file.st = "present") =>
    installedLabel.kind # "None"

\* C17: inputText always has 0..32 characters, all of them 0-9a-f, whether
\* prefilled at startup or edited; the content handed to a write has exactly
\* 32 of them, and a write that succeeds leaves a file holding a valid key.
C17_OnlyValidKeys ==
  /\ Len(inputText) \in 0..INPUT_BOX_CHARS
  /\ \A i \in 1..Len(inputText) : inputText[i] \in LowerHexDigits
  /\ last.wrote # "none" =>
       /\ Len(inputText) = INPUT_BOX_CHARS
       /\ inputText = last.pre.inputText
       /\ RegexMatchKey(inputText)
  /\ last.wrote = "ok" =>
       /\ secOCFile = FileOf(inputText)
       /\ RuleValid(secOCFile)

C17_Witness ==
  /\ last.wrote = "ok"
  /\ last.since = "back_app"
  /\ Len(inputText) = INPUT_BOX_CHARS
  /\ secOCFile = FileOf(inputText)
  /\ secOCFile # last.file

Indicators ==
  {n \in {"charsLeft", "install", "success", "errors"} :
     \/ n = "charsLeft" /\ showCharsLeftLabel
     \/ n = "install" /\ showInstallButton
     \/ n = "success" /\ showSuccessLabel
     \/ n = "errors" /\ errorLines # <<>>}

\* C18: in every drawn frame exactly one of the characters-left label, the
\* install button, the success label and the error lines is shown; the
\* characters-left label is shown exactly when inputText has fewer than 32
\* characters; the success flag and error lines never hold together, and
\* either holds only at 32 characters.
C18_ExactlyOneIndicator ==
  FrameDrawn =>
    /\ Cardinality(Indicators) = 1
    /\ showCharsLeftLabel <=> (Len(inputText) < INPUT_BOX_CHARS)
    /\ ~(showSuccessLabel /\ errorLines # <<>>)
    /\ (showSuccessLabel \/ errorLines # <<>>) =>
         Len(inputText) = INPUT_BOX_CHARS

C18_Witness ==
  /\ FrameDrawn
  /\ last.wrote \in FailedWrites
  /\ last.pre.showInstallButton
  /\ Indicators = {"errors"}

----------------------------------------------------------------------------
(* tsk/manager.sh *)

\* mgr.pc: "m_touch" (line 21), "m_check" (lines 22-24), "m_mkdir"
\* (lines 25-26), "m_launch" (lines 29-30), "m_running" (the program runs),
\* "m_cleanup" (the EXIT trap), "m_reboot" (line 17), "m_rebooted".
\* mgr.mode is how /persist is mounted, mgr.canary whether /persist/alreadyRW
\* exists. A file of a read-only filesystem can be neither created, touched
\* nor removed.

\* touch ${CANARY}: its exit status, and the canary afterwards.
ManagerTouch(m) ==
  [m EXCEPT !.touched = (m.mode = "rw"),
            !.canary = (m.canary \/ m.mode = "rw")]

\* if [ $? -ne 0 ]; then sudo mount -o remount,rw /persist; fi
ManagerRemountIfTouchFailed(m) ==
  IF ~m.touched THEN [m EXCEPT !.mode = "rw"] ELSE m

\* Mutant of ManagerCleanup: the test written as [ ! -f ${CANARY} ].
ManagerCleanupInverted(m) ==
  IF ~m.canary
  THEN m
  ELSE [m EXCEPT !.mode = "ro"]

\* cleanup(), lines 6-14: remove the canary if it is there, else remount
\* /persist read-only.
ManagerCleanup(m) ==
  IF m.canary
  THEN [m EXCEPT !.canary = (m.mode = "ro")]
  ELSE [m EXCEPT !.mode = "ro"]

programVars == <<secOCFile, persistFile, persistKey, secOCKey, inputText,
                 showCharsLeftLabel, showInstallButton, showSuccessLabel,
                 errorLines, installedLabel, last, sinceWrite, installedKey,
                 lastWrite>>

ManagerStates ==
  {[pc |-> "m_touch", mode |-> md, canary |-> c, touched |-> FALSE,
    startMode |-> md, startCanary |-> c, interrupted |-> FALSE,
    exitMode |-> md, exitCanary |-> c] : md \in {"ro", "rw"}, c \in BOOLEAN}

InitManager ==
  /\ pc = "off"
  /\ mgr \in ManagerStates
  /\ \E sec \in MainSecOCFiles, per \in MainPersistFiles : ProgramInit(sec, per)

MgrTouch ==
  /\ mgr.pc = "m_touch"
  /\ mgr' = [ManagerTouch(mgr) EXCEPT !.pc = "m_check"]
  /\ UNCHANGED <<pc, programVars>>

MgrCheckTouch ==
  /\ mgr.pc = "m_check"
  /\ mgr' = [ManagerRemountIfTouchFailed(mgr) EXCEPT !.pc = "m_mkdir"]
  /\ UNCHANGED <<pc, programVars>>

\* mkdir -p /persist/tsk || true; chown comma /persist/tsk
MgrPrepare ==
  /\ mgr.pc = "m_mkdir"
  /\ mgr' = [mgr EXCEPT !.pc = "m_launch"]
  /\ UNCHANGED <<pc, programVars>>

\* cd /data/openpilot; system/ui/tsk-manager
MgrLaunch ==
  /\ mgr.pc = "m_launch"
  /\ pc = "off"
  /\ pc' = "start"
  /\ mgr' = [mgr EXCEPT !.pc = "m_running"]
  /\ UNCHANGED programVars

\* The program, run by the script (without the key taps).
MgrProgram ==
  /\ mgr.pc = "m_running"
  /\ (Startup \/ NoTap \/ TapInstall \/ TapHide \/ WindowClose)

\* The program has returned: the script ends and its EXIT trap runs.
MgrExit ==
  /\ mgr.pc = "m_running"
  /\ pc = "exited"
  /\ mgr' = [mgr EXCEPT !.pc = "m_cleanup", !.exitMode = mgr.mode,
                        !.exitCanary = mgr.canary]
  /\ UNCHANGED <<pc, programVars>>

\* The script is ended by a signal: bash runs the EXIT trap then too.
MgrInterrupt ==
  /\ mgr.pc \in {"m_touch", "m_check", "m_mkdir", "m_launch", "m_running"}
  /\ mgr' = [mgr EXCEPT !.pc = "m_cleanup", !.interrupted = TRUE,
                        !.exitMode = mgr.mode, !.exitCanary = mgr.canary]
  /\ pc' = IF pc = "off" THEN "off" ELSE "exited"
  /\ UNCHANGED programVars

MgrCleanup ==
  /\ mgr.pc = "m_cleanup"
  /\ mgr' = [ManagerCleanup(mgr) EXCEPT !.pc = "m_reboot"]
  /\ UNCHANGED <<pc, programVars>>

\* sudo reboot
MgrReboot ==
  /\ mgr.pc = "m_reboot"
  /\ mgr' = [mgr EXCEPT !.pc = "m_rebooted"]
  /\ UNCHANGED <<pc, programVars>>

NextManager ==
  \/ MgrTouch
  \/ MgrCheckTouch
  \/ MgrPrepare
  \/ MgrLaunch
  \/ MgrProgram
  \/ MgrExit
  \/ MgrInterrupt
  \/ MgrCleanup
  \/ MgrReboot

SpecManager == InitManager /\ [][NextManager]_vars

====
